---- MODULE Spec2Model ----
(***************************************************************************)
(* Model of src/main.py of garment-backend: the line-balancing allocator   *)
(* true_thai_balancing and the metrics computed by the /balance handler    *)
(* balance_dynamic.                                                        *)
(*                                                                         *)
(* Numbers.  The program computes with Python floats; the model computes   *)
(* with exact rationals (float rounding error is not modelled).  A time is *)
(* stored as an integer number of ticks, 1 tick = 1/Scale millisecond,     *)
(* where Scale is a common multiple of every operator count the model      *)
(* uses, so total_time / num_operators is exact.  Input durations are      *)
(* whole milliseconds.  Rounded results are stored in their last digit     *)
(* (round(x, 1) in tenths, round(x, 2) in hundredths).                     *)
(*                                                                         *)
(* Process numbers.  proc["no"] is the key of a process; the model uses    *)
(* the position of the process in its section as that key.                 *)
(***************************************************************************)
EXTENDS Integers, Sequences, FiniteSets, TLC

\* ---------------------------------------------------------------- bounds
MaxProcs == 3        \* processes in a direct call of true_thai_balancing
MaxOps == 3          \* largest num_operators of a direct call
MaxSections == 2     \* sections of a /balance request
MaxRows == 3         \* process rows of the file of a /balance request
MaxSecOps == 2       \* largest configured operator count of a section
MaxSelected == 2     \* names in the selected-sections list of a request

\* ------------------------------------------------------------- constants
EpsMs == 1           \* the literal 0.001 (seconds) of the allocator, in ms

RECURSIVE GCD(_, _)
GCD(a, b) == IF b = 0 THEN a ELSE GCD(b, a % b)

RECURSIVE LCMUpTo(_)
LCMUpTo(n) == IF n <= 1 THEN 1 ELSE (LCMUpTo(n - 1) * n) \div GCD(LCMUpTo(n - 1), n)

MaxOf2(a, b) == IF a >= b THEN a ELSE b

\* ticks per millisecond
Scale == LCMUpTo(MaxOf2(MaxOps, MaxSecOps))

\* ticks per second
TicksPerSec == 1000 * Scale

\* the literal 0.001 in ticks
Eps == EpsMs * Scale

\* ---------------------------------------------------------------- inputs
TimeKeys == {"smv", "ct"}

\* process records of a direct call (durations in ms)
ProcKinds ==
  { [smv |-> 1, ct |-> 0], [smv |-> 2, ct |-> 2],
    [smv |-> 3, ct |-> 1], [smv |-> 10, ct |-> 2] }

\* process records of a /balance request: the parser keeps smv > 0, ct >= 0
BalKinds == { [smv |-> 4, ct |-> 0], [smv |-> 2, ct |-> 2] }

SeqsUpTo(S, n) == UNION { [1..k -> S] : k \in 0..n }

\* the scenario of three processes of 40 s, 30 s, 20 s on two operators
ReferenceProcesses ==
  << [smv |-> 40000, ct |-> 0], [smv |-> 30000, ct |-> 0], [smv |-> 20000, ct |-> 0] >>

SectionNames == << "Ass", "P2", "P3", "P4" >>

\* ----------------------------------------------------------------- state
VARIABLES
  \* frame of true_thai_balancing
  processes, num_operators, time_key, target_ct, operators, current_op_idx,
  proc_idx, remaining_proc_time, pc,
  \* frame of balance_dynamic
  sections_data, config, time_mode, sec_idx, results_list, bpc,
  line_bottleneck, output, eff_smv_global, selected_sections_str,
  selected_sections, cycle_times, line_balance_eff, suggestions

allocVars == << processes, num_operators, time_key, target_ct, operators,
                current_op_idx, proc_idx, remaining_proc_time, pc >>

balVars == << sections_data, config, time_mode, sec_idx, results_list, bpc,
              line_bottleneck, output, eff_smv_global, selected_sections_str,
              selected_sections, cycle_times, line_balance_eff, suggestions >>

vars == << allocVars, balVars >>

\* ------------------------------------------------------- pure operators
RECURSIVE SumSeq(_)
SumSeq(s) == IF s = << >> THEN 0 ELSE Head(s) + SumSeq(Tail(s))

RECURSIVE MaxSeq(_, _)
MaxSeq(s, default) ==
  IF s = << >> THEN default
  ELSE LET m == MaxSeq(Tail(s), Head(s)) IN IF Head(s) >= m THEN Head(s) ELSE m

Min(a, b) == IF a <= b THEN a ELSE b

\* Python round(): nearest, ties to even; num >= 0, den > 0
RoundHalfEven(num, den) ==
  LET q == num \div den
      r == num % den
  IN  IF 2 * r < den THEN q
      ELSE IF 2 * r > den THEN q + 1
      ELSE IF q % 2 = 0 THEN q ELSE q + 1

\* p[time_key] in ticks
ProcTime(p, key) == p[key] * Scale

\* sum(p[time_key] for p in processes)
TotalTime(procs, key) == SumSeq([k \in 1..Len(procs) |-> ProcTime(procs[k], key)])

\* total_time / num_operators
TargetCt(procs, n, key) == TotalTime(procs, key) \div n

\* proc["no"]
ProcNo(k) == k

\* the operator list of line 38
NewOperators(n) == [i \in 1..n |-> [op |-> i, sec |-> 0, tasks |-> << >>]]

ClampToFirst(idx, n) == IF idx >= n THEN 0 ELSE idx

\* lines 52-53
Clamp(idx, n) == IF idx >= n THEN n - 1 ELSE idx

SpaceLeftOfEmpty(target, sec) == target

\* line 58
SpaceLeft(target, sec) == target - sec

TakeAllSpace(remaining, space) == space

TakeAllRemaining(remaining, space) == remaining

\* line 66
TakeTime(remaining, space) == Min(remaining, space)

\* line 69: percentage as the exact fraction << numerator, denominator >>
Percentage(take, original) ==
  IF original > 0 THEN << take * 100, original >> ELSE << 0, 1 >>

\* lines 74-75: the percentage shown in the label, -1 when none is shown
ShownPercent(pct) ==
  IF pct[1] * 10 < 999 * pct[2] THEN RoundHalfEven(pct[1], pct[2]) ELSE -1

PrependTask(tasks, t) == << t >> \o tasks

\* lines 81-86
AppendTask(tasks, t) == Append(tasks, t)

\* lines 62 and 95
Advance(idx) == idx + 1

\* ------------------------------------------------- true_thai_balancing
\* lines 31-32
ReturnEmpty ==
  /\ pc = "start"
  /\ num_operators <= 0
  /\ operators' = << >>
  /\ pc' = "done"
  /\ UNCHANGED << processes, num_operators, time_key, target_ct,
                  current_op_idx, proc_idx, remaining_proc_time >>
  /\ UNCHANGED balVars

\* lines 35-40
Enter ==
  /\ pc = "start"
  /\ num_operators > 0
  /\ target_ct' = TargetCt(processes, num_operators, time_key)
  /\ operators' = NewOperators(num_operators)
  /\ current_op_idx' = 0
  /\ proc_idx' = 0
  /\ pc' = "for"
  /\ UNCHANGED << processes, num_operators, time_key, remaining_proc_time >>
  /\ UNCHANGED balVars

\* lines 42-46: the walk takes the next process
ForNext ==
  /\ pc = "for"
  /\ proc_idx < Len(processes)
  /\ proc_idx' = proc_idx + 1
  /\ remaining_proc_time' = ProcTime(processes[proc_idx + 1], time_key)
  /\ pc' = "while"
  /\ UNCHANGED << processes, num_operators, time_key, target_ct, operators,
                  current_op_idx >>
  /\ UNCHANGED balVars

\* line 97
Return ==
  /\ pc = "for"
  /\ proc_idx = Len(processes)
  /\ pc' = "done"
  /\ UNCHANGED << processes, num_operators, time_key, target_ct, operators,
                  current_op_idx, proc_idx, remaining_proc_time >>
  /\ UNCHANGED balVars

\* line 49, loop exit: the process is placed
WhileExit ==
  /\ pc = "while"
  /\ ~(remaining_proc_time > Eps)
  /\ pc' = "for"
  /\ UNCHANGED << processes, num_operators, time_key, target_ct, operators,
                  current_op_idx, proc_idx, remaining_proc_time >>
  /\ UNCHANGED balVars

\* lines 49-55: loop entry and the clamp of the cursor
WhileClamp ==
  /\ pc = "while"
  /\ remaining_proc_time > Eps
  /\ current_op_idx' = Clamp(current_op_idx, num_operators)
  /\ pc' = "body"
  /\ UNCHANGED << processes, num_operators, time_key, target_ct, operators,
                  proc_idx, remaining_proc_time >>
  /\ UNCHANGED balVars

\* lines 58-63: the operator is full, move to the next
SkipFull ==
  /\ pc = "body"
  /\ SpaceLeft(target_ct, operators[current_op_idx + 1].sec) <= Eps
  /\ current_op_idx' = Advance(current_op_idx)
  /\ pc' = "while"
  /\ UNCHANGED << processes, num_operators, time_key, target_ct, operators,
                  proc_idx, remaining_proc_time >>
  /\ UNCHANGED balVars

\* lines 58-95: place a fragment on the current operator
Take ==
  /\ pc = "body"
  /\ LET current_op == operators[current_op_idx + 1]
         space_left == SpaceLeft(target_ct, current_op.sec)
         original_time == ProcTime(processes[proc_idx], time_key)
         take_time == TakeTime(remaining_proc_time, space_left)
         percentage == Percentage(take_time, original_time)
         task == [no |-> ProcNo(proc_idx), shown |-> ShownPercent(percentage),
                  time |-> take_time, percentage |-> percentage]
     IN  /\ ~(space_left <= Eps)
         /\ operators' = [operators EXCEPT ![current_op_idx + 1] =
               [op |-> current_op.op,
                sec |-> current_op.sec + take_time,
                tasks |-> AppendTask(current_op.tasks, task)]]
         /\ remaining_proc_time' = remaining_proc_time - take_time
         /\ current_op_idx' =
               IF remaining_proc_time - take_time > Eps
               THEN Advance(current_op_idx) ELSE current_op_idx
  /\ pc' = "while"
  /\ UNCHANGED << processes, num_operators, time_key, target_ct, proc_idx >>
  /\ UNCHANGED balVars

Balancing ==
  \/ ReturnEmpty \/ Enter \/ ForNext \/ Return
  \/ WhileExit \/ WhileClamp \/ SkipFull \/ Take

\* ------------------------------------------- a direct call of the allocator
DirectInputs ==
  { << procs, n, key >> : procs \in SeqsUpTo(ProcKinds, MaxProcs),
                          n \in (-1)..MaxOps, key \in TimeKeys }
  \cup { << ReferenceProcesses, 2, "smv" >> }

Init ==
  /\ \E inp \in DirectInputs :
       /\ processes = inp[1]
       /\ num_operators = inp[2]
       /\ time_key = inp[3]
  /\ target_ct = 0
  /\ operators = << >>
  /\ current_op_idx = 0
  /\ proc_idx = 0
  /\ remaining_proc_time = 0
  /\ pc = "start"
  /\ sections_data = << >>
  /\ config = << >>
  /\ time_mode = "smv"
  /\ sec_idx = 0
  /\ results_list = << >>
  /\ bpc = "direct"
  /\ line_bottleneck = 0
  /\ output = 0
  /\ eff_smv_global = 0
  /\ selected_sections_str = << >>
  /\ selected_sections = << >>
  /\ cycle_times = << >>
  /\ line_balance_eff = 0
  /\ suggestions = << >>

Next == Balancing

Spec == Init /\ [][Next]_vars

\* a running call keeps executing statements
LiveSpec == Spec /\ WF_vars(Next)

\* ------------------------------------------------------ balance_dynamic
RECURSIVE Flatten(_)
Flatten(ss) == IF ss = << >> THEN << >> ELSE Head(ss) \o Flatten(Tail(ss))

Secs(ops) == [i \in 1..Len(ops) |-> ops[i].sec]

\* line 334
SectionBn(ops) == MaxSeq(Secs(ops), 0)

\* lines 337 and 380: round(3600 / bn, 0) if bn > 0 else 0
OutputRate(bn) == IF bn > 0 THEN RoundHalfEven(3600 * TicksPerSec, bn) ELSE 0

\* lines 341, 342, 383: round(total * 100 / denom, 1) if denom > 0 else 0,
\* in tenths of a percent
Efficiency(total, denom) ==
  IF denom > 0 THEN RoundHalfEven(total * 100 * 10, denom) ELSE 0

SectionColorUnguarded(sec, sec_bn) == IF sec = sec_bn THEN "orange" ELSE "green"

\* lines 346-349
SectionColor(sec, sec_bn) ==
  IF sec = sec_bn /\ sec_bn > 0 THEN "orange" ELSE "green"

\* lines 371-372
LineColor(color, sec, bottleneck) == IF sec = bottleneck THEN "red" ELSE color

\* line 353: round(sum, 2), in hundredths of a second
TotalTimeUsed(procs, key) == RoundHalfEven(TotalTime(procs, key), 10 * Scale)

\* lines 365-366
LineBottleneck(results) ==
  LET all_secs == Flatten([k \in 1..Len(results) |-> Secs(results[k].operators)])
      all_times == SelectSeq(all_secs, LAMBDA t : t > 0)
  IN  IF all_times # << >> THEN MaxSeq(all_times, 0) ELSE 0

CycleTOrTotal(t_used, n_ops) ==
  IF n_ops > 0 THEN (t_used * Scale) \div n_ops ELSE t_used * Scale

\* line 425: t_used / n_ops if n_ops > 0 else 0, in 1/Scale hundredths of a second
CycleT(t_used, n_ops) == IF n_ops > 0 THEN (t_used * Scale) \div n_ops ELSE 0

\* line 404: the first result with that name, << >> when there is none
FindResult(results, name) ==
  SelectSeq(results, LAMBDA r : r.name = name)

\* lines 401-426
CycleTimes(results, selected) ==
  LET found == SelectSeq(selected, LAMBDA nm : FindResult(results, nm) # << >>)
  IN  [k \in 1..Len(found) |->
         LET sec_res == FindResult(results, found[k])[1]
         IN  CycleT(sec_res.total_time_used, sec_res.num_ops)]

LineBalanceEffOfMax(cycles) ==
  IF cycles # << >>
  THEN IF MaxSeq(cycles, 0) > 0
       THEN RoundHalfEven(SumSeq(cycles) * 100 * 100, MaxSeq(cycles, 0))
       ELSE 0
  ELSE 0

\* lines 429-437, in hundredths of a percent
LineBalanceEff(cycles) ==
  IF cycles # << >>
  THEN LET sum_cycles == SumSeq(cycles)
           max_cycle == MaxSeq(cycles, 0)
           count_cycles == Len(cycles)
           denom_lb == max_cycle * count_cycles
       IN  IF denom_lb > 0 THEN RoundHalfEven(sum_cycles * 100 * 100, denom_lb) ELSE 0
  ELSE 0

FirstBnSec(results, bottleneck) ==
  LET all == SelectSeq(results, LAMBDA r : r.section_bn = bottleneck)
  IN  IF all = << >> THEN << >> ELSE << all[1].name >>

\* line 448
BnSecs(results, bottleneck) ==
  LET all == SelectSeq(results, LAMBDA r : r.section_bn = bottleneck)
  IN  [k \in 1..Len(all) |-> all[k].name]

\* line 454: "ass" in s.lower()
ContainsAss(name) == name = "Ass"

\* lines 440-455
Suggestions(lb_eff, bottleneck, results) ==
  LET bn_secs == BnSecs(results, bottleneck)
      balance == IF lb_eff < 6000 THEN << [kind |-> "low-balance", secs |-> << >>] >>
                 ELSE IF lb_eff > 9000
                      THEN << [kind |-> "excellent-balance", secs |-> << >>] >>
                      ELSE << >>
      location == IF bottleneck > 0
                  THEN << [kind |-> "bottleneck", secs |-> bn_secs] >>
                       \o (IF \E k \in 1..Len(bn_secs) : ContainsAss(bn_secs[k])
                           THEN << [kind |-> "action", secs |-> << >>] >>
                           ELSE << >>)
                  ELSE << >>
  IN  balance \o location

\* lines 315-320: the next section is balanced with the selected time mode
CallBalancing ==
  /\ bpc = "sections"
  /\ pc = "idle"
  /\ sec_idx < Len(sections_data)
  /\ sec_idx' = sec_idx + 1
  /\ processes' = sections_data[sec_idx + 1].procs
  /\ num_operators' = config[sec_idx + 1]
  /\ time_key' = time_mode
  /\ pc' = "start"
  /\ UNCHANGED << target_ct, operators, current_op_idx, proc_idx, remaining_proc_time >>
  /\ UNCHANGED << sections_data, config, time_mode, results_list, bpc,
                  line_bottleneck, output, eff_smv_global, selected_sections_str,
                  selected_sections, cycle_times, line_balance_eff, suggestions >>

\* lines 322-362: the metrics of the section just balanced
SectionMetrics ==
  /\ bpc = "sections"
  /\ pc = "done"
  /\ LET procs == sections_data[sec_idx].procs
         num_ops == config[sec_idx]
         sec_bn == SectionBn(operators)
         denom == sec_bn * num_ops
         balanced_ops ==
           [i \in 1..Len(operators) |->
              [op |-> operators[i].op, sec |-> operators[i].sec,
               tasks |-> operators[i].tasks,
               color |-> SectionColor(operators[i].sec, sec_bn)]]
     IN  results_list' = Append(results_list,
           [name |-> sections_data[sec_idx].name,
            total_time_used |-> TotalTimeUsed(procs, time_mode),
            operators |-> balanced_ops,
            section_bn |-> sec_bn,
            sec_output |-> OutputRate(sec_bn),
            sec_eff_smv |-> Efficiency(TotalTime(procs, "smv"), denom),
            sec_eff_ct |-> Efficiency(TotalTime(procs, "ct"), denom),
            num_ops |-> num_ops])
  \* the frame of true_thai_balancing is gone
  /\ pc' = "idle"
  /\ processes' = << >>
  /\ num_operators' = 0
  /\ target_ct' = 0
  /\ operators' = << >>
  /\ current_op_idx' = 0
  /\ proc_idx' = 0
  /\ remaining_proc_time' = 0
  /\ UNCHANGED << time_key, sections_data, config, time_mode, sec_idx, bpc,
                  line_bottleneck, output, eff_smv_global, selected_sections_str,
                  selected_sections, cycle_times, line_balance_eff, suggestions >>

\* names a request can select: the sections of the file and one other name
SelectableNames ==
  { SectionNames[k] : k \in 1..Len(sections_data) } \cup { "Other" }

\* lines 365-464: the line metrics; the selected-sections field is read here
GlobalAnalytics ==
  /\ bpc = "sections"
  /\ pc = "idle"
  /\ sec_idx = Len(sections_data)
  /\ \E sel \in SeqsUpTo(SelectableNames, MaxSelected) :
       LET bottleneck == LineBottleneck(results_list)
           recolored ==
             [k \in 1..Len(results_list) |->
                [results_list[k] EXCEPT !.operators =
                   [i \in 1..Len(results_list[k].operators) |->
                      [results_list[k].operators[i] EXCEPT !.color =
                         LineColor(results_list[k].operators[i].color,
                                   results_list[k].operators[i].sec, bottleneck)]]]]
           total_man_global ==
             SumSeq([k \in 1..Len(results_list) |-> Len(results_list[k].operators)])
           global_denom == bottleneck * total_man_global
           global_total_smv ==
             SumSeq([k \in 1..Len(sections_data) |->
                       TotalTime(sections_data[k].procs, "smv")])
           selected ==
             IF sel = << >>
             THEN [k \in 1..Len(sections_data) |-> sections_data[k].name]
             ELSE sel
           cycles == CycleTimes(results_list, selected)
           lb_eff == LineBalanceEff(cycles)
       IN  /\ line_bottleneck' = bottleneck
           /\ results_list' = recolored
           /\ output' = OutputRate(bottleneck)
           /\ eff_smv_global' = Efficiency(global_total_smv, global_denom)
           /\ selected_sections_str' = sel
           /\ selected_sections' = selected
           /\ cycle_times' = cycles
           /\ line_balance_eff' = lb_eff
           /\ suggestions' = Suggestions(lb_eff, bottleneck, recolored)
  /\ bpc' = "responded"
  /\ UNCHANGED allocVars
  /\ UNCHANGED << sections_data, config, time_mode, sec_idx >>

\* ------------------------------------------------------ a /balance request
\* the parser gives every section at least one process and a distinct name
SectionLists == SeqsUpTo(BalKinds, MaxRows) \ { << >> }

RowsOf(secs) == SumSeq([k \in 1..Len(secs) |-> Len(secs[k])])

BalanceInputs ==
  UNION { { << secs, cfg, mode >> :
              cfg \in [1..Len(secs) -> (-1)..MaxSecOps], mode \in TimeKeys } :
          secs \in { ss \in SeqsUpTo(SectionLists, MaxSections) : RowsOf(ss) <= MaxRows } }

InitBalance ==
  /\ \E inp \in BalanceInputs :
       /\ sections_data =
            [k \in 1..Len(inp[1]) |-> [name |-> SectionNames[k], procs |-> inp[1][k]]]
       /\ config = inp[2]
       /\ time_mode = inp[3]
  /\ processes = << >>
  /\ num_operators = 0
  /\ time_key = "smv"
  /\ target_ct = 0
  /\ operators = << >>
  /\ current_op_idx = 0
  /\ proc_idx = 0
  /\ remaining_proc_time = 0
  /\ pc = "idle"
  /\ sec_idx = 0
  /\ results_list = << >>
  /\ bpc = "sections"
  /\ line_bottleneck = 0
  /\ output = 0
  /\ eff_smv_global = 0
  /\ selected_sections_str = << >>
  /\ selected_sections = << >>
  /\ cycle_times = << >>
  /\ line_balance_eff = 0
  /\ suggestions = << >>

NextBalance == Balancing \/ CallBalancing \/ SectionMetrics \/ GlobalAnalytics

BalanceSpec == InitBalance /\ [][NextBalance]_vars

\* ------------------------------------------------------------ properties
Returned == pc = "done" /\ num_operators >= 1

\* time of the fragments of process number no in one task list
TaskTimeOf(tasks, no) ==
  SumSeq([k \in 1..Len(tasks) |-> IF tasks[k].no = no THEN tasks[k].time ELSE 0])

\* time of the fragments of process number no over all operators
PlacedTime(no) ==
  SumSeq([i \in 1..Len(operators) |-> TaskTimeOf(operators[i].tasks, no)])

Abs(x) == IF x >= 0 THEN x ELSE -x

\* C1 (conservation): when true_thai_balancing has returned with
\* num_operators >= 1, for every process the times of the fragments that
\* carry its number, summed over all operators, equal its duration under
\* the time key within 0.001.
C1_Conservation ==
  Returned =>
    \A k \in 1..Len(processes) :
      Abs(ProcTime(processes[k], time_key) - PlacedTime(ProcNo(k))) <= Eps

\* a returned allocation in which a process was split over two operators
C1_Witness ==
  /\ Returned
  /\ \E i, j \in 1..Len(operators) :
       /\ i < j
       /\ \E a \in 1..Len(operators[i].tasks), b \in 1..Len(operators[j].tasks) :
            operators[i].tasks[a].no = operators[j].tasks[b].no

\* C2 (termination): every call of true_thai_balancing returns.
C2_Termination == <>(pc = "done")

\* the cursor is past the last operator and the process is not placed yet
Overflowed ==
  /\ pc = "while"
  /\ current_op_idx >= num_operators
  /\ remaining_proc_time > Eps

\* C3 (overflow containment): whenever the cursor has advanced past the last
\* operator while the process has remaining time > 0.001, the cursor is
\* clamped to the last operator and the excess ends up placed there: the
\* placement loop of the process ends with the cursor on the last operator.
C3_OverflowContainment ==
  Overflowed ~> (/\ pc = "for"
                 /\ remaining_proc_time <= Eps
                 /\ current_op_idx = num_operators - 1)

TaskNos(i) == [k \in 1..Len(operators[i].tasks) |-> operators[i].tasks[k].no]

\* C4 (order preservation): in every state, the task list of each operator
\* is in non-decreasing order of process position, and every fragment of an
\* operator comes from a process at or before every process that has a
\* fragment on a later operator.
C4_OrderPreservation ==
  /\ \A i \in 1..Len(operators) :
       \A a, b \in 1..Len(operators[i].tasks) :
         a < b => TaskNos(i)[a] <= TaskNos(i)[b]
  /\ \A i, j \in 1..Len(operators) :
       i < j =>
         \A a \in 1..Len(operators[i].tasks), b \in 1..Len(operators[j].tasks) :
           TaskNos(i)[a] <= TaskNos(j)[b]

\* an operator holds fragments of two processes and a later operator holds one
C4_Witness ==
  \E i, j \in 1..Len(operators) :
    /\ i < j
    /\ Len(operators[j].tasks) >= 1
    /\ Len(operators[i].tasks) >= 2
    /\ TaskNos(i)[1] < TaskNos(i)[2]

ReferenceCall ==
  processes = ReferenceProcesses /\ num_operators = 2 /\ time_key = "smv"

\* percentage in tenths of a percent, rounded
PercentTenths(pct) == RoundHalfEven(pct[1] * 10, pct[2])

\* C6 (reference scenario): durations 40, 30, 20 s on 2 operators give
\* target 45 s, operator 1 = [process 1: 40 s (100%), process 2: 5 s (16.7%)],
\* operator 2 = [process 2: 25 s (83.3%), process 3: 20 s (100%)], sums 45, 45.
C6_ReferenceScenario ==
  (ReferenceCall /\ pc = "done") =>
    /\ target_ct = 45000 * Scale
    /\ Len(operators) = 2
    /\ operators[1].sec = 45000 * Scale
    /\ operators[2].sec = 45000 * Scale
    /\ [k \in 1..Len(operators[1].tasks) |->
          << operators[1].tasks[k].no, operators[1].tasks[k].time,
             PercentTenths(operators[1].tasks[k].percentage) >>]
        = << << 1, 40000 * Scale, 1000 >>, << 2, 5000 * Scale, 167 >> >>
    /\ [k \in 1..Len(operators[2].tasks) |->
          << operators[2].tasks[k].no, operators[2].tasks[k].time,
             PercentTenths(operators[2].tasks[k].percentage) >>]
        = << << 2, 25000 * Scale, 833 >>, << 3, 20000 * Scale, 1000 >> >>

C6_Witness == ReferenceCall /\ pc = "done"

InAllocation == pc \in {"for", "while", "body"} /\ pc' \in {"for", "while", "body", "done"}

SecNeverDecreases ==
  \A i \in 1..Len(operators) : operators'[i].sec >= operators[i].sec

\* C7 as stated (monotonic fill): across one allocation no operator's sec
\* decreases from a step to the next and the cursor index does not decrease
\* from a step to the next, the clamping step included.
C7_Original ==
  [][InAllocation => (SecNeverDecreases /\ current_op_idx' >= current_op_idx)]_vars

\* C7 amended: no operator's sec ever decreases; the cursor index never
\* decreases except in the clamping step, which takes it from num_operators
\* to num_operators - 1; the index of the operator the cursor designates
\* (the cursor clamped to the last operator) never decreases.
C7_MonotonicFill ==
  [][InAllocation =>
       /\ SecNeverDecreases
       /\ \/ current_op_idx' >= current_op_idx
          \/ /\ pc = "while"
             /\ current_op_idx = num_operators
             /\ current_op_idx' = num_operators - 1
       /\ Min(current_op_idx', num_operators - 1)
            >= Min(current_op_idx, num_operators - 1)]_vars

\* the cursor is past the last operator and the clamping step is next
C7_Witness == Overflowed /\ current_op_idx = num_operators

Responded == bpc = "responded"

\* the selection the line balance is computed over: the names of the request
\* (all section names when the request names none) that have a result
EffectiveSelection ==
  LET chosen == IF selected_sections_str = << >>
                THEN [k \in 1..Len(sections_data) |-> sections_data[k].name]
                ELSE selected_sections_str
  IN  SelectSeq(chosen,
        LAMBDA nm : \E k \in 1..Len(results_list) : results_list[k].name = nm)

ResultOf(nm) ==
  results_list[CHOOSE k \in 1..Len(results_list) : results_list[k].name = nm]

\* C5 (zero operators): true_thai_balancing with num_operators <= 0 returns
\* an empty operator list, and /balance reports for such a section bottleneck
\* 0, output rate 0, both efficiencies 0 and a line-balance cycle time of 0.
\* (A division by zero has no value in the model, so a reachable one would
\* stop the evaluation of the step.)
C5_ZeroOperators ==
  /\ (pc = "done" /\ num_operators <= 0) => operators = << >>
  /\ \A k \in 1..Len(results_list) :
       results_list[k].num_ops <= 0 =>
         /\ results_list[k].operators = << >>
         /\ results_list[k].section_bn = 0
         /\ results_list[k].sec_output = 0
         /\ results_list[k].sec_eff_smv = 0
         /\ results_list[k].sec_eff_ct = 0
  /\ Responded =>
       /\ Len(cycle_times) = Len(EffectiveSelection)
       /\ \A k \in 1..Len(cycle_times) :
            ResultOf(EffectiveSelection[k]).num_ops <= 0 => cycle_times[k] = 0

\* a response with a selected section of positive time and no operators next
\* to a selected section that has operators
C5_Witness ==
  /\ Responded
  /\ \E i, j \in 1..Len(EffectiveSelection) :
       /\ ResultOf(EffectiveSelection[i]).num_ops <= 0
       /\ ResultOf(EffectiveSelection[i]).total_time_used > 0
       /\ ResultOf(EffectiveSelection[j]).num_ops > 0

\* C8 as stated (status classification): in the response every operator is
\* red if its sec equals line_bottleneck, otherwise orange if its sec equals
\* the bottleneck of its section, otherwise green -- also for sec 0 and for a
\* section bottleneck of 0.
C8_Original ==
  Responded =>
    \A k \in 1..Len(results_list) :
      \A i \in 1..Len(results_list[k].operators) :
        LET o == results_list[k].operators[i]
        IN  o.color = IF o.sec = line_bottleneck THEN "red"
                      ELSE IF o.sec = results_list[k].section_bn THEN "orange"
                      ELSE "green"

\* C8 amended: red if sec equals line_bottleneck; otherwise orange if sec
\* equals the bottleneck of its section and that bottleneck is positive;
\* otherwise green.
C8_StatusClassification ==
  Responded =>
    \A k \in 1..Len(results_list) :
      \A i \in 1..Len(results_list[k].operators) :
        LET o == results_list[k].operators[i]
        IN  o.color = IF o.sec = line_bottleneck THEN "red"
                      ELSE IF o.sec = results_list[k].section_bn
                              /\ results_list[k].section_bn > 0 THEN "orange"
                      ELSE "green"

\* a response with a positive line bottleneck and an operator of sec 0 in a
\* section whose bottleneck is 0
C8_Witness ==
  /\ Responded
  /\ line_bottleneck > 0
  /\ \E k \in 1..Len(results_list) :
       /\ results_list[k].section_bn = 0
       /\ Len(results_list[k].operators) > 0
       /\ results_list[k].operators[1].color = "green"
  /\ \E k \in 1..Len(results_list) :
       \E i \in 1..Len(results_list[k].operators) :
         results_list[k].operators[i].color = "red"

\* C9 (line balance): the cycle time of a selected section is
\* total_time_used / num_ops (0 without operators); line_balance is
\* sum * 100 / (max * count) of these rounded to 2 places, 0 when nothing is
\* selected or the maximum is 0; and 0 <= line_balance <= 100.
C9_LineBalance ==
  Responded =>
    LET sel == EffectiveSelection
        sum == SumSeq(cycle_times)
        count == Len(cycle_times)
    IN  /\ Len(cycle_times) = Len(sel)
        /\ \A k \in 1..Len(sel) :
             LET r == ResultOf(sel[k])
             IN  IF r.num_ops > 0
                 THEN cycle_times[k] * r.num_ops = r.total_time_used * Scale
                 ELSE cycle_times[k] = 0
        /\ 0 <= line_balance_eff /\ line_balance_eff <= 10000
        /\ \/ /\ \A k \in 1..count : cycle_times[k] = 0
              /\ line_balance_eff = 0
           \/ \E m \in 1..count :
                /\ cycle_times[m] > 0
                /\ \A k \in 1..count : cycle_times[k] <= cycle_times[m]
                /\ 2 * Abs(line_balance_eff * cycle_times[m] * count - sum * 10000)
                     <= cycle_times[m] * count

\* a response over two named sections with a line balance strictly between
\* 0 and 100 percent
C9_Witness ==
  /\ Responded
  /\ selected_sections_str # << >>
  /\ Len(cycle_times) >= 2
  /\ line_balance_eff > 0
  /\ line_balance_eff < 10000

AllResultSecs ==
  Flatten([k \in 1..Len(results_list) |-> Secs(results_list[k].operators)])

BottleneckNotes == SelectSeq(suggestions, LAMBDA sg : sg.kind = "bottleneck")

\* C10 (line bottleneck and its note): line_bottleneck is the largest operator
\* sec of all sections (0 if none is positive); when it is 0, output and
\* global efficiency are 0 and no bottleneck note is appended; when it is
\* positive, one bottleneck note is appended and it names, in section order,
\* exactly the sections whose bottleneck equals line_bottleneck, at least one.
C10_LineBottleneck ==
  Responded =>
    /\ line_bottleneck >= 0
    /\ \A k \in 1..Len(AllResultSecs) : AllResultSecs[k] <= line_bottleneck
    /\ line_bottleneck > 0 =>
         \E k \in 1..Len(AllResultSecs) : AllResultSecs[k] = line_bottleneck
    /\ line_bottleneck = 0 =>
         /\ output = 0
         /\ eff_smv_global = 0
         /\ BottleneckNotes = << >>
    /\ line_bottleneck > 0 =>
         /\ Len(BottleneckNotes) = 1
         /\ LET named == BottleneckNotes[1].secs
            IN  /\ Len(named) >= 1
                /\ \A k \in 1..Len(results_list) :
                     (results_list[k].section_bn = line_bottleneck)
                       <=> (\E a \in 1..Len(named) : named[a] = results_list[k].name)
                /\ \A a, b \in 1..Len(named) :
                     a < b =>
                       \E i, j \in 1..Len(results_list) :
                         /\ i < j
                         /\ results_list[i].name = named[a]
                         /\ results_list[j].name = named[b]

\* a response whose bottleneck note names two tied sections
C10_Witness ==
  /\ Responded
  /\ line_bottleneck > 0
  /\ Len(BottleneckNotes) = 1
  /\ Len(BottleneckNotes[1].secs) = 2

\* a response with no positive operator time although sections were balanced
C10_WitnessZero ==
  /\ Responded
  /\ line_bottleneck = 0
  /\ Len(results_list) >= 1

====
